---- MODULE Spec2Model ----
(***************************************************************************)
(* Model of src/wallet/crypter.cpp (paicoin): the CCrypter symmetric       *)
(* crypter, the secret-envelope helpers and the CCryptoKeyStore state      *)
(* machine (uncrypted / encrypted+locked / encrypted+unlocked).            *)
(*                                                                         *)
(* Byte vectors are symbolic: a value is a record [tag, n, size]; a        *)
(* ciphertext is the record of the key, IV and plaintext that produced it. *)
(* Hashes (Hash160, Hash256, SHA256d of a label) are injective.            *)
(***************************************************************************)
EXTENDS Integers, FiniteSets, Sequences, TLC

\* ------------------------------------------------------------- bounds ----
NumKeys == 2
NumMasters == 2
\* the longest plaintext handed to CCrypter::Encrypt (one block and a byte)
MaxLen == 17
\* the largest nRounds handed to SetKeyFromPassphrase
MaxRounds == 2

\* ---------------------------------------------------------- constants ----
WALLET_CRYPTO_KEY_SIZE == 32
WALLET_CRYPTO_IV_SIZE == 16
WALLET_CRYPTO_SALT_SIZE == 8
AES_BLOCKSIZE == 16
KEY_SECRET_SIZE == 32

\* -------------------------------------------------------- byte vectors ---
Bytes(tag, n, size) == [tag |-> tag, n |-> n, size |-> size]

\* the empty vector / empty SecureString
Empty == Bytes("empty", 0, 0)

\* a buffer of size zero bytes (CCrypter's key and IV after construction)
Zeros(size) == Bytes("zero", 0, size)

\* a candidate master key of the right length
Master(i) == Bytes("master", i, WALLET_CRYPTO_KEY_SIZE)

\* keying material of a wrong length (16 bytes), which SetKey rejects
ShortKey == Bytes("master", 1, WALLET_CRYPTO_IV_SIZE)

\* a non-empty paper key / PIN string
PaperString == Bytes("paper", 1, 28)
OtherPaperString == Bytes("paper", 2, 28)
PinString == Bytes("pin", 1, 4)
OtherPinString == Bytes("pin", 2, 4)

\* bytes that no encryption of this store produced (a foreign or random blob)
Junk == Bytes("junk", 1, 48)

\* ---------------------------------------- key pair primitives (key.h) ----
\* CKey: 32 secret bytes and the compression flag
CKey(s, c) == [secret |-> s, fCompressed |-> c]

\* an invalid CKey (default constructed, or set from bytes that are no scalar)
NoKey == CKey(0, FALSE)

NoPubKey == [fCompressed |-> FALSE, point |-> 0]

\* CKey::GetPubKey: the curve point of the secret, with the key's flag
GetPubKey(key) == [fCompressed |-> key.fCompressed, point |-> 7 * key.secret]

\* CPubKey::GetID: Hash160 of the serialised public key
GetID(pub) == 2 * pub.point + (IF pub.fCompressed THEN 1 ELSE 0)

\* CPubKey::GetHash: Hash256 of the serialised public key
GetHash(pub) == 1000 + GetID(pub)

IsCompressed(pub) == pub.fCompressed

\* CKey::begin()..end(): the 32 secret bytes
SecretBytes(key) == Bytes("secret", key.secret, KEY_SECRET_SIZE)

\* CKey::Set(begin, end, fCompressedIn)
KeySet(vch, fCompressedIn) ==
    IF vch.size = KEY_SECRET_SIZE /\ vch.tag = "secret"
    THEN CKey(vch.n, fCompressedIn)
    ELSE NoKey

\* CKey::VerifyPubKey
VerifyPubKey(key, pub) ==
    /\ key # NoKey
    /\ pub.fCompressed = key.fCompressed
    /\ GetPubKey(key) = pub

\* ----------------------------------------------- AES-256-CBC (aes.h) -----
\* Encrypt with PKCS#7 padding: the ciphertext has 16 * (n \div 16 + 1) bytes
AES256CBCEncrypt(key, iv, data) ==
    [tag |-> "aes",
     size |-> AES_BLOCKSIZE * ((data.size \div AES_BLOCKSIZE) + 1),
     key |-> key, iv |-> iv, pt |-> data]

\* bytes whose first block was decrypted under another IV
Garbled(data) == Bytes("garbled", data.n, data.size)

\* Decrypt: the number of plaintext bytes, 0 when the padding is rejected.
\* Another key gives unrelated blocks (padding rejected); another IV changes
\* the first block only, so the padding of a longer ciphertext survives.
AES256CBCDecrypt(key, iv, data) ==
    IF data.tag # "aes" THEN [nLen |-> 0, out |-> Empty]
    ELSE IF data.key # key THEN [nLen |-> 0, out |-> Empty]
    ELSE IF data.iv = iv THEN [nLen |-> data.pt.size, out |-> data.pt]
    ELSE IF data.size > AES_BLOCKSIZE
         THEN [nLen |-> data.pt.size, out |-> Garbled(data.pt)]
         ELSE [nLen |-> 0, out |-> Empty]

\* ------------------------------------------------------------ CCrypter ---
\* CCrypter(): zeroed key and IV buffers, no key set
NewCrypter ==
    [vchKey |-> Zeros(WALLET_CRYPTO_KEY_SIZE),
     vchIV |-> Zeros(WALLET_CRYPTO_IV_SIZE),
     fKeySet |-> FALSE]

\* CCrypter::BytesToKeySHA512AES: the number of key bytes written, and the
\* key and IV cut from the count-fold SHA512 of passphrase and salt
BytesToKeySHA512AES(chSalt, strKeyData, count) ==
    IF count = 0 THEN [key |-> Empty, iv |-> Empty, ret |-> 0]
    ELSE LET digest == 1000 * count + 100 * chSalt.size + 10 * chSalt.n + strKeyData.n
         IN  [key |-> Bytes("kdfkey", digest, WALLET_CRYPTO_KEY_SIZE),
              iv |-> Bytes("kdfiv", digest, WALLET_CRYPTO_IV_SIZE),
              ret |-> WALLET_CRYPTO_KEY_SIZE]

\* CCrypter::SetKeyFromPassphrase
SetKeyFromPassphrase(c, strKeyData, chSalt, nRounds, nDerivationMethod) ==
    IF nRounds < 1 \/ chSalt.size # WALLET_CRYPTO_SALT_SIZE
    THEN [c |-> c, ret |-> FALSE]
    ELSE LET k == BytesToKeySHA512AES(chSalt, strKeyData, nRounds)
             i == IF nDerivationMethod = 0 THEN k.ret ELSE 0
         IN  IF i # WALLET_CRYPTO_KEY_SIZE
             THEN [c |-> [c EXCEPT !.vchKey = Zeros(WALLET_CRYPTO_KEY_SIZE),
                                   !.vchIV = Zeros(WALLET_CRYPTO_IV_SIZE)],
                   ret |-> FALSE]
             ELSE [c |-> [vchKey |-> k.key, vchIV |-> k.iv, fKeySet |-> TRUE],
                   ret |-> TRUE]

\* faulty variant of SetKey: the key bytes are not copied into vchKey
SetKey_IgnoresKey(c, chNewKey, chNewIV) ==
    IF chNewKey.size # WALLET_CRYPTO_KEY_SIZE \/ chNewIV.size # WALLET_CRYPTO_IV_SIZE
    THEN [c |-> c, ret |-> FALSE]
    ELSE [c |-> [vchKey |-> c.vchKey, vchIV |-> chNewIV, fKeySet |-> TRUE],
          ret |-> TRUE]

\* CCrypter::SetKey
SetKey(c, chNewKey, chNewIV) ==
    IF chNewKey.size # WALLET_CRYPTO_KEY_SIZE \/ chNewIV.size # WALLET_CRYPTO_IV_SIZE
    THEN [c |-> c, ret |-> FALSE]
    ELSE [c |-> [vchKey |-> chNewKey, vchIV |-> chNewIV, fKeySet |-> TRUE],
          ret |-> TRUE]

\* CCrypter::Encrypt
Encrypt(c, vchPlaintext) ==
    IF ~c.fKeySet THEN [out |-> Empty, ret |-> FALSE]
    ELSE LET ct == AES256CBCEncrypt(c.vchKey, c.vchIV, vchPlaintext)
             nLen == ct.size
         IN  IF nLen < vchPlaintext.size
             THEN [out |-> Empty, ret |-> FALSE]
             ELSE [out |-> ct, ret |-> TRUE]

\* CCrypter::Decrypt
Decrypt(c, vchCiphertext) ==
    IF ~c.fKeySet THEN [out |-> Empty, ret |-> FALSE]
    ELSE LET d == AES256CBCDecrypt(c.vchKey, c.vchIV, vchCiphertext)
         IN  IF d.nLen = 0
             THEN [out |-> Empty, ret |-> FALSE]
             ELSE [out |-> d.out, ret |-> TRUE]

\* ---------------------------------------------------- envelope helpers ---
\* memcpy(&chIV[0], &nIV, WALLET_CRYPTO_IV_SIZE): the first 16 bytes of nIV
IVOf(nIV) == Bytes("iv", nIV, WALLET_CRYPTO_IV_SIZE)

\* CCryptoKeyStore::DoubleHashOfString
DoubleHashOfString(str) ==
    IF str = "" THEN 0
    ELSE IF str = "paperkey" THEN 1
    ELSE IF str = "pincode" THEN 2
    ELSE 3

EncryptSecret(vMasterKey, vchPlaintext, nIV) ==
    LET k == SetKey(NewCrypter, vMasterKey, IVOf(nIV))
    IN  IF ~k.ret THEN [out |-> Empty, ret |-> FALSE]
        ELSE Encrypt(k.c, vchPlaintext)

DecryptSecret(vMasterKey, vchCiphertext, nIV) ==
    LET k == SetKey(NewCrypter, vMasterKey, IVOf(nIV))
    IN  IF ~k.ret THEN [out |-> Empty, ret |-> FALSE]
        ELSE Decrypt(k.c, vchCiphertext)

\* faulty variant of DecryptKey: the key is always set as compressed
DecryptKey_AlwaysCompressed(vMasterKey, vchCryptedSecret, vchPubKey) ==
    LET d == DecryptSecret(vMasterKey, vchCryptedSecret, GetHash(vchPubKey))
    IN  IF ~d.ret THEN [key |-> NoKey, ret |-> FALSE]
        ELSE IF d.out.size # KEY_SECRET_SIZE THEN [key |-> NoKey, ret |-> FALSE]
        ELSE LET key == KeySet(d.out, TRUE)
             IN  [key |-> key, ret |-> VerifyPubKey(key, vchPubKey)]

DecryptKey(vMasterKey, vchCryptedSecret, vchPubKey) ==
    LET d == DecryptSecret(vMasterKey, vchCryptedSecret, GetHash(vchPubKey))
    IN  IF ~d.ret THEN [key |-> NoKey, ret |-> FALSE]
        ELSE IF d.out.size # KEY_SECRET_SIZE THEN [key |-> NoKey, ret |-> FALSE]
        ELSE LET key == KeySet(d.out, IsCompressed(vchPubKey))
             IN  [key |-> key, ret |-> VerifyPubKey(key, vchPubKey)]

\* ------------------------------------------------------------- inputs ----
Keys == {CKey(i, i % 2 = 1) : i \in 1..NumKeys}
OneKey == {CKey(1, TRUE)}
MasterKeys == {Master(i) : i \in 1..NumMasters}
\* what a caller may pass as a master key: a 32-byte key or a wrong-length one
KeyingMaterials == MasterKeys \cup {ShortKey}
OneMaster == {Master(1), ShortKey}
\* what a caller may pass as a paper key / PIN (the empty string included)
PaperKeys == {Empty, PaperString, OtherPaperString}
PinCodes == {Empty, PinString, OtherPinString}
Threads == {1, 2}
OneThread == {1}
\* the thread on which a listener of NotifyStatusChanged may run its handler
Listener == 0
\* everything that can hold cs_KeyStore
Contexts == Threads \cup {Listener}
\* what a caller may hand to a CCrypter of its own
Plaintexts == {IF n = 0 THEN Empty ELSE Bytes("text", n, n) : n \in 0..MaxLen}
Passphrases == {Bytes("pass", 1, 4)}
Salts == {Bytes("salt", 1, WALLET_CRYPTO_SALT_SIZE),
          Bytes("salt", 1, WALLET_CRYPTO_SALT_SIZE - 1)}
Rounds == 0..MaxRounds
Methods == {0, 1}
IVs == {IVOf(0), IVOf(1), Bytes("iv", 1, WALLET_CRYPTO_IV_SIZE \div 2)}
\* ciphertexts written under a master key, and a blob that is none
Ciphertexts ==
    {AES256CBCEncrypt(k, iv, x) :
        k \in MasterKeys,
        iv \in {v \in IVs : v.size = WALLET_CRYPTO_IV_SIZE},
        x \in Plaintexts}
    \cup {Junk}
\* the ciphertexts the persistence layer may load for public key pub: the
\* record written under a master key of MS, or a blob that is no such record
CryptedSecretsOf(pub, MS) ==
    {EncryptSecret(m, SecretBytes(k), GetHash(pub)).out :
        m \in {mm \in MS : mm.size = WALLET_CRYPTO_KEY_SIZE},
        k \in {kk \in Keys : GetPubKey(kk) = pub}}
    \cup {Junk}
CryptedPaperKeys(PS, MS) ==
    {EncryptSecret(m, p, DoubleHashOfString("paperkey")).out :
        m \in {mm \in MS : mm.size = WALLET_CRYPTO_KEY_SIZE},
        p \in {pp \in PS : pp.size > 0}}
CryptedPinCodes(PS, MS) ==
    {EncryptSecret(m, p, DoubleHashOfString("pincode")).out :
        m \in {mm \in MS : mm.size = WALLET_CRYPTO_KEY_SIZE},
        p \in {pp \in PS : pp.size > 0}}

\* -------------------------------------------------------------- state ----
VARIABLES
    fUseCrypto,                    \* CCryptoKeyStore::fUseCrypto
    vMasterKey,                    \* CCryptoKeyStore::vMasterKey
    mapKeys,                       \* CBasicKeyStore::mapKeys: KeyID -> CKey
    mapCryptedKeys,                \* KeyID -> <<CPubKey, ciphertext>>
    vchCryptedPaperKey,
    vchCryptedPinCode,
    paperKey,                      \* CBasicKeyStore::paperKey (plaintext)
    pinCode,                       \* CBasicKeyStore::pinCode (plaintext)
    fDecryptionThoroughlyChecked,
    pc,                            \* per thread: where its Lock/Unlock call is
    held,                          \* per thread: acquisitions of cs_KeyStore
    aborted,                       \* assert(false) was reached
    last,                          \* the step just taken and what it returned
    history,                       \* which calls have written key records
    crypter                        \* a CCrypter object of its own: vchKey, vchIV, fKeySet

storeVars == <<fUseCrypto, vMasterKey, mapKeys, mapCryptedKeys,
               vchCryptedPaperKey, vchCryptedPinCode, paperKey, pinCode,
               fDecryptionThoroughlyChecked>>
vars == <<fUseCrypto, vMasterKey, mapKeys, mapCryptedKeys,
          vchCryptedPaperKey, vchCryptedPinCode, paperKey, pinCode,
          fDecryptionThoroughlyChecked, pc, held, aborted, last, history,
          crypter>>

\* the store object as one value, for the operations below
Store ==
    [vMasterKey |-> vMasterKey, fUseCrypto |-> fUseCrypto,
     mapKeys |-> mapKeys, mapCryptedKeys |-> mapCryptedKeys,
     vchCryptedPaperKey |-> vchCryptedPaperKey,
     vchCryptedPinCode |-> vchCryptedPinCode,
     paperKey |-> paperKey, pinCode |-> pinCode,
     fDecryptionThoroughlyChecked |-> fDecryptionThoroughlyChecked]

\* the store after a call: every field as the call left it
Commit(s) ==
    /\ fUseCrypto' = s.fUseCrypto
    /\ vMasterKey' = s.vMasterKey
    /\ mapKeys' = s.mapKeys
    /\ mapCryptedKeys' = s.mapCryptedKeys
    /\ vchCryptedPaperKey' = s.vchCryptedPaperKey
    /\ vchCryptedPinCode' = s.vchCryptedPinCode
    /\ paperKey' = s.paperKey
    /\ pinCode' = s.pinCode
    /\ fDecryptionThoroughlyChecked' = s.fDecryptionThoroughlyChecked

EmptyMap == [i \in {} |-> 0]

\* std::map operator[] assignment
MapPut(m, k, v) == [i \in (DOMAIN m) \cup {k} |-> IF i = k THEN v ELSE m[i]]

\* the smallest key of a std::map: where begin() points
MinOf(S) == CHOOSE x \in S : \A y \in S : x <= y

\* ---------------------------------------- CBasicKeyStore (keystore.h) ----
BasicAddKeyPubKey(s, key, pubkey) ==
    [s |-> [s EXCEPT !.mapKeys = MapPut(@, GetID(pubkey), key)], ret |-> TRUE]

BasicGetKey(s, address) ==
    IF address \in DOMAIN s.mapKeys
    THEN [key |-> s.mapKeys[address], ret |-> TRUE]
    ELSE [key |-> NoKey, ret |-> FALSE]

BasicAddPaperKey(s, paperKeyIn) ==
    [s |-> [s EXCEPT !.paperKey = paperKeyIn], ret |-> TRUE]

BasicGetPaperKey(s) == [out |-> s.paperKey, ret |-> TRUE]

BasicAddPinCode(s, pinCodeIn) ==
    [s |-> [s EXCEPT !.pinCode = pinCodeIn], ret |-> TRUE]

BasicGetPinCode(s) == [out |-> s.pinCode, ret |-> TRUE]

\* ------------------------------------------------------ CCryptoKeyStore --
IsCrypted(s) == s.fUseCrypto

IsLocked(s) == IsCrypted(s) /\ s.vMasterKey.size = 0

\* faulty variant of SetCrypted: it promotes a store that holds plaintext keys
SetCrypted_AlwaysPromotes(s) ==
    IF s.fUseCrypto THEN [s |-> s, ret |-> TRUE]
    ELSE [s |-> [s EXCEPT !.fUseCrypto = TRUE], ret |-> TRUE]

SetCrypted(s) ==
    IF s.fUseCrypto THEN [s |-> s, ret |-> TRUE]
    ELSE IF DOMAIN s.mapKeys # {} THEN [s |-> s, ret |-> FALSE]
    ELSE [s |-> [s EXCEPT !.fUseCrypto = TRUE], ret |-> TRUE]

\* faulty variant of AddCryptedKey: the record is stored without promotion
AddCryptedKey_NoPromotion(s, vchPubKey, vchCryptedSecret) ==
    [s |-> [s EXCEPT !.mapCryptedKeys =
                MapPut(@, GetID(vchPubKey), <<vchPubKey, vchCryptedSecret>>)],
     ret |-> TRUE]

AddCryptedKey(s, vchPubKey, vchCryptedSecret) ==
    LET c == SetCrypted(s)
    IN  IF ~c.ret THEN [s |-> c.s, ret |-> FALSE]
        ELSE [s |-> [c.s EXCEPT !.mapCryptedKeys =
                        MapPut(@, GetID(vchPubKey), <<vchPubKey, vchCryptedSecret>>)],
              ret |-> TRUE]

AddKeyPubKey(s, key, pubkey) ==
    IF ~IsCrypted(s) THEN BasicAddKeyPubKey(s, key, pubkey)
    ELSE IF IsLocked(s) THEN [s |-> s, ret |-> FALSE]
    ELSE LET e == EncryptSecret(s.vMasterKey, SecretBytes(key), GetHash(pubkey))
         IN  IF ~e.ret THEN [s |-> s, ret |-> FALSE]
             ELSE AddCryptedKey(s, pubkey, e.out)

GetKey(s, address) ==
    IF ~IsCrypted(s) THEN BasicGetKey(s, address)
    ELSE IF address \in DOMAIN s.mapCryptedKeys
         THEN DecryptKey(s.vMasterKey, s.mapCryptedKeys[address][2],
                         s.mapCryptedKeys[address][1])
         ELSE [key |-> NoKey, ret |-> FALSE]

\* faulty variant of the loop of EncryptKeys: it leaves after the first entry
EncryptKeysLoop_FirstOnly(s, todo, vMasterKeyIn) ==
    IF todo = {} THEN [s |-> s, ret |-> TRUE]
    ELSE LET id == MinOf(todo)
             key == s.mapKeys[id]
             vchPubKey == GetPubKey(key)
             e == EncryptSecret(vMasterKeyIn, SecretBytes(key), GetHash(vchPubKey))
         IN  IF ~e.ret THEN [s |-> s, ret |-> FALSE]
             ELSE AddCryptedKey(s, vchPubKey, e.out)

\* the for loop of EncryptKeys over the entries of mapKeys not yet visited
RECURSIVE EncryptKeysLoop(_, _, _)
EncryptKeysLoop(s, todo, vMasterKeyIn) ==
    IF todo = {} THEN [s |-> s, ret |-> TRUE]
    ELSE LET id == MinOf(todo)
             key == s.mapKeys[id]
             vchPubKey == GetPubKey(key)
             e == EncryptSecret(vMasterKeyIn, SecretBytes(key), GetHash(vchPubKey))
         IN  IF ~e.ret THEN [s |-> s, ret |-> FALSE]
             ELSE LET a == AddCryptedKey(s, vchPubKey, e.out)
                  IN  IF ~a.ret THEN [s |-> a.s, ret |-> FALSE]
                      ELSE EncryptKeysLoop(a.s, todo \ {id}, vMasterKeyIn)

\* faulty variant of EncryptKeys: it keeps the master key resident
EncryptKeys_StoresMaster(s, vMasterKeyIn) ==
    IF DOMAIN s.mapCryptedKeys # {} \/ IsCrypted(s) THEN [s |-> s, ret |-> FALSE]
    ELSE LET l == EncryptKeysLoop([s EXCEPT !.fUseCrypto = TRUE],
                                  DOMAIN s.mapKeys, vMasterKeyIn)
         IN  IF ~l.ret THEN [s |-> l.s, ret |-> FALSE]
             ELSE [s |-> [l.s EXCEPT !.mapKeys = EmptyMap,
                                     !.vMasterKey = vMasterKeyIn],
                   ret |-> TRUE]

EncryptKeys(s, vMasterKeyIn) ==
    IF DOMAIN s.mapCryptedKeys # {} \/ IsCrypted(s) THEN [s |-> s, ret |-> FALSE]
    ELSE LET l == EncryptKeysLoop([s EXCEPT !.fUseCrypto = TRUE],
                                  DOMAIN s.mapKeys, vMasterKeyIn)
         IN  IF ~l.ret THEN [s |-> l.s, ret |-> FALSE]
             ELSE [s |-> [l.s EXCEPT !.mapKeys = EmptyMap], ret |-> TRUE]

\* faulty variant of the second critical section: the flag is reset as well
LockSection_ResetsFlag(s) == [s EXCEPT !.vMasterKey = Empty, !.fUseCrypto = FALSE]

\* faulty variant of the second critical section: the master key stays
LockSection_KeepsKey(s) == s

\* Lock, lines 160-163: the second critical section of Lock
LockSection(s) == [s EXCEPT !.vMasterKey = Empty]

\* the for loop of Unlock from iterator position todo: <<keyPass, keyFail>>
RECURSIVE UnlockLoop(_, _, _, _)
UnlockLoop(s, todo, vMasterKeyIn, keyPass) ==
    IF todo = {} THEN [keyPass |-> keyPass, keyFail |-> FALSE]
    ELSE LET id == MinOf(todo)
             d == DecryptKey(vMasterKeyIn, s.mapCryptedKeys[id][2],
                             s.mapCryptedKeys[id][1])
         IN  IF ~d.ret THEN [keyPass |-> keyPass, keyFail |-> TRUE]
             ELSE IF s.fDecryptionThoroughlyChecked
                  THEN [keyPass |-> TRUE, keyFail |-> FALSE]
                  ELSE UnlockLoop(s, todo \ {id}, vMasterKeyIn, TRUE)

\* faulty variant of Unlock: the key is stored before it is validated
Unlock_StoresFirst(s, vMasterKeyIn) ==
    LET c == SetCrypted(s)
        k == [c.s EXCEPT !.vMasterKey = vMasterKeyIn]
    IN  IF ~c.ret THEN [s |-> c.s, ret |-> "false"]
        ELSE LET w == UnlockLoop(c.s, DOMAIN c.s.mapCryptedKeys, vMasterKeyIn, FALSE)
             IN  IF w.keyPass /\ w.keyFail THEN [s |-> k, ret |-> "abort"]
                 ELSE IF w.keyFail \/ ~w.keyPass THEN [s |-> k, ret |-> "false"]
                 ELSE [s |-> [k EXCEPT !.fDecryptionThoroughlyChecked = TRUE],
                       ret |-> "true"]

\* faulty variant of Unlock: success is reported without storing the key
Unlock_StoresNothing(s, vMasterKeyIn) ==
    LET c == SetCrypted(s)
    IN  IF ~c.ret THEN [s |-> c.s, ret |-> "false"]
        ELSE LET w == UnlockLoop(c.s, DOMAIN c.s.mapCryptedKeys, vMasterKeyIn, FALSE)
             IN  IF w.keyPass /\ w.keyFail THEN [s |-> c.s, ret |-> "abort"]
                 ELSE IF w.keyFail \/ ~w.keyPass THEN [s |-> c.s, ret |-> "false"]
                 ELSE [s |-> c.s, ret |-> "true"]

\* faulty variant of Unlock: a failed record alone does not reject the key
Unlock_AcceptsOnFail(s, vMasterKeyIn) ==
    LET c == SetCrypted(s)
    IN  IF ~c.ret THEN [s |-> c.s, ret |-> "false"]
        ELSE LET w == UnlockLoop(c.s, DOMAIN c.s.mapCryptedKeys, vMasterKeyIn, FALSE)
             IN  IF w.keyPass /\ w.keyFail THEN [s |-> c.s, ret |-> "abort"]
                 ELSE IF ~w.keyFail /\ ~w.keyPass THEN [s |-> c.s, ret |-> "false"]
                 ELSE [s |-> [c.s EXCEPT !.vMasterKey = vMasterKeyIn,
                                         !.fDecryptionThoroughlyChecked = TRUE],
                       ret |-> "true"]

\* the critical section of Unlock: ret is "true", "false" or "abort"
Unlock(s, vMasterKeyIn) ==
    LET c == SetCrypted(s)
    IN  IF ~c.ret THEN [s |-> c.s, ret |-> "false"]
        ELSE LET w == UnlockLoop(c.s, DOMAIN c.s.mapCryptedKeys, vMasterKeyIn, FALSE)
             IN  IF w.keyPass /\ w.keyFail THEN [s |-> c.s, ret |-> "abort"]
                 ELSE IF w.keyFail \/ ~w.keyPass THEN [s |-> c.s, ret |-> "false"]
                 ELSE [s |-> [c.s EXCEPT !.vMasterKey = vMasterKeyIn,
                                         !.fDecryptionThoroughlyChecked = TRUE],
                       ret |-> "true"]

AddCryptedPaperKey(s, vchCryptedPaperKeyIn) ==
    LET c == SetCrypted(s)
    IN  IF ~c.ret THEN [s |-> c.s, ret |-> FALSE]
        ELSE [s |-> [c.s EXCEPT !.vchCryptedPaperKey = vchCryptedPaperKeyIn],
              ret |-> TRUE]

AddPaperKey(s, paperKeyIn) ==
    IF ~IsCrypted(s) THEN BasicAddPaperKey(s, paperKeyIn)
    ELSE IF IsLocked(s) THEN [s |-> s, ret |-> FALSE]
    ELSE LET e == EncryptSecret(s.vMasterKey, paperKeyIn,
                                DoubleHashOfString("paperkey"))
         IN  IF e.ret THEN AddCryptedPaperKey(s, e.out)
             ELSE [s |-> s, ret |-> FALSE]

\* ret, and out: what the call assigns to its out parameter when ret is TRUE
GetPaperKey(s) ==
    IF s.paperKey.size # 0 THEN BasicGetPaperKey(s)
    ELSE IF ~IsCrypted(s) THEN BasicGetPaperKey(s)
    ELSE DecryptSecret(s.vMasterKey, s.vchCryptedPaperKey,
                       DoubleHashOfString("paperkey"))

\* GetPaperKey(this->paperKey): the out parameter is the cached plaintext
DecryptPaperKey(s) ==
    LET g == GetPaperKey(s)
    IN  IF g.ret THEN [s EXCEPT !.paperKey = g.out] ELSE s

\* faulty variant of EncryptPaperKey: the cached plaintext is not wiped
EncryptPaperKey_KeepsCache(s, vMasterKeyIn) ==
    IF IsLocked(s) THEN [s |-> s, ret |-> FALSE]
    ELSE LET g == GetPaperKey(s)
         IN  IF ~g.ret THEN [s |-> s, ret |-> FALSE]
             ELSE LET e == EncryptSecret(vMasterKeyIn, g.out,
                                         DoubleHashOfString("paperkey"))
                  IN  IF e.ret
                      THEN [s |-> [s EXCEPT !.vchCryptedPaperKey = e.out],
                            ret |-> TRUE]
                      ELSE [s |-> s, ret |-> FALSE]

EncryptPaperKey(s, vMasterKeyIn) ==
    IF IsLocked(s) THEN [s |-> s, ret |-> FALSE]
    ELSE LET g == GetPaperKey(s)
         IN  IF ~g.ret THEN [s |-> s, ret |-> FALSE]
             ELSE LET e == EncryptSecret(vMasterKeyIn, g.out,
                                         DoubleHashOfString("paperkey"))
                  IN  IF e.ret
                      THEN [s |-> [s EXCEPT !.vchCryptedPaperKey = e.out,
                                            !.paperKey = Empty],
                            ret |-> TRUE]
                      ELSE [s |-> s, ret |-> FALSE]

AddCryptedPinCode(s, vchCryptedPinCodeIn) ==
    LET c == SetCrypted(s)
    IN  IF ~c.ret THEN [s |-> c.s, ret |-> FALSE]
        ELSE [s |-> [c.s EXCEPT !.vchCryptedPinCode = vchCryptedPinCodeIn],
              ret |-> TRUE]

AddPinCode(s, pinCodeIn) ==
    IF ~IsCrypted(s) THEN BasicAddPinCode(s, pinCodeIn)
    ELSE IF IsLocked(s) THEN [s |-> s, ret |-> FALSE]
    ELSE LET e == EncryptSecret(s.vMasterKey, pinCodeIn,
                                DoubleHashOfString("pincode"))
         IN  IF e.ret THEN AddCryptedPinCode(s, e.out)
             ELSE [s |-> s, ret |-> FALSE]

GetPinCode(s) ==
    IF s.pinCode.size # 0 THEN BasicGetPinCode(s)
    ELSE IF ~IsCrypted(s) THEN BasicGetPinCode(s)
    ELSE DecryptSecret(s.vMasterKey, s.vchCryptedPinCode,
                       DoubleHashOfString("pincode"))

DecryptPinCode(s) ==
    LET g == GetPinCode(s)
    IN  IF g.ret THEN [s EXCEPT !.pinCode = g.out] ELSE s

EncryptPinCode(s, vMasterKeyIn) ==
    IF IsLocked(s) THEN [s |-> s, ret |-> FALSE]
    ELSE LET g == GetPinCode(s)
         IN  IF ~g.ret THEN [s |-> s, ret |-> FALSE]
             ELSE LET e == EncryptSecret(vMasterKeyIn, g.out,
                                         DoubleHashOfString("pincode"))
                  IN  IF e.ret
                      THEN [s |-> [s EXCEPT !.vchCryptedPinCode = e.out,
                                            !.pinCode = Empty],
                            ret |-> TRUE]
                      ELSE [s |-> s, ret |-> FALSE]

\* ------------------------------------------------------------ actions ----
\* bool as the strings used in last.ret
Ret(b) == IF b THEN "true" ELSE "false"

\* LOCK(cs_KeyStore) by t can proceed: the recursive mutex is free or t's own
MutexFree(t) == \A u \in DOMAIN held : u # t => held[u] = 0

\* thread t is not inside a Lock or Unlock call, the process is alive, and t
\* can enter a critical section
Idle(t) == ~aborted /\ pc[t] = "idle" /\ MutexFree(t)

\* a call that is one critical section: it leaves the caller where it was,
\* with the mutex released
Atomic == UNCHANGED <<pc, held, aborted, crypter>>

\* history: the master key of the successful EncryptKeys call, if there was
\* one, and whether a caller of AddCryptedKey has stored a record
NoHistory == [vMasterKeyIn |-> Empty, encrypted |-> FALSE, loaded |-> FALSE]

Init ==
    /\ fUseCrypto = FALSE
    /\ vMasterKey = Empty
    /\ mapKeys = EmptyMap
    /\ mapCryptedKeys = EmptyMap
    /\ vchCryptedPaperKey = Empty
    /\ vchCryptedPinCode = Empty
    /\ paperKey = Empty
    /\ pinCode = Empty
    /\ fDecryptionThoroughlyChecked = FALSE
    /\ pc = [t \in Contexts |-> "idle"]
    /\ held = [t \in Contexts |-> 0]
    /\ aborted = FALSE
    /\ last = [op |-> "CCryptoKeyStore"]
    /\ history = NoHistory
    /\ crypter = NewCrypter

CallSetCrypted(t) ==
    /\ Idle(t)
    /\ LET r == SetCrypted(Store)
       IN  /\ Commit(r.s)
           /\ last' = [ret |-> Ret(r.ret), op |-> "SetCrypted"]
    /\ Atomic /\ UNCHANGED history

\* callers pass a key with its own public key
CallAddKeyPubKey(t, key) ==
    /\ Idle(t)
    /\ LET r == AddKeyPubKey(Store, key, GetPubKey(key))
       IN  /\ Commit(r.s)
           /\ last' = [key |-> key, ret |-> Ret(r.ret), op |-> "AddKeyPubKey"]
    /\ Atomic /\ UNCHANGED history

CallAddCryptedKey(t, pub, ct) ==
    /\ Idle(t)
    /\ LET r == AddCryptedKey(Store, pub, ct)
       IN  /\ Commit(r.s)
           /\ last' = [pub |-> pub, ret |-> Ret(r.ret), op |-> "AddCryptedKey"]
           /\ history' = [history EXCEPT !.loaded = @ \/ r.ret]
    /\ Atomic

CallGetKey(t, address) ==
    /\ Idle(t)
    /\ LET r == GetKey(Store, address)
       IN  last' = [key |-> r.key, ret |-> Ret(r.ret), address |-> address,
                    op |-> "GetKey"]
    /\ UNCHANGED storeVars
    /\ Atomic /\ UNCHANGED history

CallEncryptKeys(t, vMasterKeyIn) ==
    /\ Idle(t)
    /\ LET r == EncryptKeys(Store, vMasterKeyIn)
       IN  /\ Commit(r.s)
           /\ last' = [ret |-> Ret(r.ret), m |-> vMasterKeyIn, op |-> "EncryptKeys"]
           /\ history' = IF r.ret
                          THEN [history EXCEPT !.encrypted = TRUE,
                                               !.vMasterKeyIn = vMasterKeyIn]
                          ELSE history
    /\ Atomic

\* Lock, line 157: the critical section of SetCrypted
LockSetCrypted(t) ==
    /\ Idle(t)
    /\ LET r == SetCrypted(Store)
       IN  /\ Commit(r.s)
           /\ pc' = [pc EXCEPT ![t] = IF r.ret THEN "Lock_160" ELSE "idle"]
           /\ last' = [ret |-> IF r.ret THEN "pending" ELSE "false", op |-> "Lock",
                       at |-> "SetCrypted"]
    /\ UNCHANGED <<held, aborted, history, crypter>>

\* Lock, lines 160-163: the second critical section
LockClear(t) ==
    /\ ~aborted
    /\ pc[t] = "Lock_160"
    /\ MutexFree(t)
    /\ Commit(LockSection(Store))
    /\ pc' = [pc EXCEPT ![t] = "Lock_165"]
    /\ last' = [ret |-> "true", op |-> "Lock", at |-> "clear"]
    /\ UNCHANGED <<held, aborted, history, crypter>>

\* Lock, lines 165-166
LockNotify(t) ==
    /\ ~aborted
    /\ pc[t] = "Lock_165"
    /\ pc' = [pc EXCEPT ![t] = "idle"]
    /\ last' = [held |-> held[t], op |-> "NotifyStatusChanged", by |-> "Lock"]
    /\ UNCHANGED storeVars
    /\ UNCHANGED <<held, aborted, history, crypter>>

\* Unlock, lines 171-202: the critical section
UnlockSection(t, vMasterKeyIn) ==
    /\ Idle(t)
    /\ LET r == Unlock(Store, vMasterKeyIn)
       IN  /\ Commit(r.s)
           /\ pc' = [pc EXCEPT ![t] = IF r.ret = "true" THEN "Unlock_203" ELSE "idle"]
           /\ aborted' = (r.ret = "abort")
           /\ last' = [ret |-> r.ret, m |-> vMasterKeyIn, op |-> "Unlock"]
    /\ UNCHANGED <<held, history, crypter>>

\* Unlock, lines 203-204
UnlockNotify(t) ==
    /\ ~aborted
    /\ pc[t] = "Unlock_203"
    /\ pc' = [pc EXCEPT ![t] = "idle"]
    /\ last' = [held |-> held[t], op |-> "NotifyStatusChanged", by |-> "Unlock"]
    /\ UNCHANGED storeVars
    /\ UNCHANGED <<held, aborted, history, crypter>>

CallAddCryptedPaperKey(t, ct) ==
    /\ Idle(t)
    /\ LET r == AddCryptedPaperKey(Store, ct)
       IN  /\ Commit(r.s)
           /\ last' = [ret |-> Ret(r.ret), op |-> "AddCryptedPaperKey"]
    /\ Atomic /\ UNCHANGED history

CallAddPaperKey(t, p) ==
    /\ Idle(t)
    /\ LET r == AddPaperKey(Store, p)
       IN  /\ Commit(r.s)
           /\ last' = [ret |-> Ret(r.ret), p |-> p, op |-> "AddPaperKey"]
    /\ Atomic /\ UNCHANGED history

CallGetPaperKey(t) ==
    /\ Idle(t)
    /\ LET r == GetPaperKey(Store)
       IN  last' = [out |-> IF r.ret THEN r.out ELSE Empty, ret |-> Ret(r.ret),
                    op |-> "GetPaperKey"]
    /\ UNCHANGED storeVars
    /\ Atomic /\ UNCHANGED history

CallDecryptPaperKey(t) ==
    /\ Idle(t)
    /\ Commit(DecryptPaperKey(Store))
    /\ last' = [op |-> "DecryptPaperKey"]
    /\ Atomic /\ UNCHANGED history

CallEncryptPaperKey(t, vMasterKeyIn) ==
    /\ Idle(t)
    /\ LET r == EncryptPaperKey(Store, vMasterKeyIn)
       IN  /\ Commit(r.s)
           /\ last' = [ret |-> Ret(r.ret), m |-> vMasterKeyIn,
                       op |-> "EncryptPaperKey"]
    /\ Atomic /\ UNCHANGED history

CallAddCryptedPinCode(t, ct) ==
    /\ Idle(t)
    /\ LET r == AddCryptedPinCode(Store, ct)
       IN  /\ Commit(r.s)
           /\ last' = [ret |-> Ret(r.ret), op |-> "AddCryptedPinCode"]
    /\ Atomic /\ UNCHANGED history

CallAddPinCode(t, p) ==
    /\ Idle(t)
    /\ LET r == AddPinCode(Store, p)
       IN  /\ Commit(r.s)
           /\ last' = [ret |-> Ret(r.ret), p |-> p, op |-> "AddPinCode"]
    /\ Atomic /\ UNCHANGED history

CallGetPinCode(t) ==
    /\ Idle(t)
    /\ LET r == GetPinCode(Store)
       IN  last' = [out |-> IF r.ret THEN r.out ELSE Empty, ret |-> Ret(r.ret),
                    op |-> "GetPinCode"]
    /\ UNCHANGED storeVars
    /\ Atomic /\ UNCHANGED history

CallDecryptPinCode(t) ==
    /\ Idle(t)
    /\ Commit(DecryptPinCode(Store))
    /\ last' = [op |-> "DecryptPinCode"]
    /\ Atomic /\ UNCHANGED history

CallEncryptPinCode(t, vMasterKeyIn) ==
    /\ Idle(t)
    /\ LET r == EncryptPinCode(Store, vMasterKeyIn)
       IN  /\ Commit(r.s)
           /\ last' = [ret |-> Ret(r.ret), m |-> vMasterKeyIn,
                       op |-> "EncryptPinCode"]
    /\ Atomic /\ UNCHANGED history

\* ------------------------------------- Lock and Unlock, LOCK by LOCK ------
\* LOCK(cs_KeyStore): one more acquisition of the recursive mutex by c
Enter(h, c) == [h EXCEPT ![c] = @ + 1]

\* faulty variant of Leave: the scope ends without releasing the mutex
Leave_KeepsMutex(h, c) == h

\* the end of the scope of a LOCK(cs_KeyStore): its acquisition is released
Leave(h, c) == [h EXCEPT ![c] = @ - 1]

\* where a caller that waits at a LOCK(cs_KeyStore) is once it has the mutex
AfterLOCK(p) ==
    CASE p = "SetCrypted_146" -> "SetCrypted_147"
      [] p = "Lock_161" -> "Lock_162"
      [] p = "Unlock_172" -> "Unlock_173"
      [] p = "Listener_wait" -> "Listener_in"
      [] OTHER -> p

\* the places where a caller waits for the mutex
AtLOCK == {"SetCrypted_146", "Lock_161", "Unlock_172", "Listener_wait"}

\* how a listener of NotifyStatusChanged reacts: it does not call the store,
\* it calls back into the store on the firing thread, or it has its own
\* thread call into the store and keeps the firing thread waiting for that
ListenerModes == {"none", "same", "other"}

\* Lock, line 157: SetCrypted is called and reaches its LOCK
BeginLock(t) ==
    /\ ~aborted
    /\ pc[t] = "idle"
    /\ pc' = [pc EXCEPT ![t] = "SetCrypted_146"]
    /\ last' = [ret |-> "pending", op |-> "Lock", at |-> "call"]
    /\ UNCHANGED storeVars
    /\ UNCHANGED <<held, aborted, history, crypter>>

\* Unlock, line 172: the call reaches its LOCK
BeginUnlock(t) ==
    /\ ~aborted
    /\ pc[t] = "idle"
    /\ pc' = [pc EXCEPT ![t] = "Unlock_172"]
    /\ last' = [ret |-> "pending", op |-> "Unlock", at |-> "call"]
    /\ UNCHANGED storeVars
    /\ UNCHANGED <<held, aborted, history, crypter>>

\* LOCK(cs_KeyStore) at lines 146, 161, 172 and in the listener's call
AcquireKeyStore(c) ==
    /\ ~aborted
    /\ pc[c] \in AtLOCK
    /\ MutexFree(c)
    /\ held' = Enter(held, c)
    /\ pc' = [pc EXCEPT ![c] = AfterLOCK(pc[c])]
    /\ last' = [op |-> "LOCK", at |-> pc[c]]
    /\ UNCHANGED storeVars
    /\ UNCHANGED <<aborted, history, crypter>>

\* SetCrypted, lines 147-153, called by Lock: the mutex is released on return
SetCryptedBody(t) ==
    /\ ~aborted
    /\ pc[t] = "SetCrypted_147"
    /\ LET r == SetCrypted(Store)
       IN  /\ Commit(r.s)
           /\ pc' = [pc EXCEPT ![t] = IF r.ret THEN "Lock_161" ELSE "idle"]
           /\ last' = [ret |-> IF r.ret THEN "pending" ELSE "false", op |-> "Lock",
                       at |-> "SetCrypted"]
    /\ held' = Leave(held, t)
    /\ UNCHANGED <<aborted, history, crypter>>

\* Lock, lines 162-163
ClearBody(t) ==
    /\ ~aborted
    /\ pc[t] = "Lock_162"
    /\ Commit(LockSection(Store))
    /\ pc' = [pc EXCEPT ![t] = "Lock_165"]
    /\ last' = [ret |-> "true", op |-> "Lock", at |-> "clear"]
    /\ held' = Leave(held, t)
    /\ UNCHANGED <<aborted, history, crypter>>

\* Unlock, lines 173-202 (the LOCK that SetCrypted takes again inside is
\* released before the section ends)
UnlockBody(t, vMasterKeyIn) ==
    /\ ~aborted
    /\ pc[t] = "Unlock_173"
    /\ LET r == Unlock(Store, vMasterKeyIn)
       IN  /\ Commit(r.s)
           /\ pc' = [pc EXCEPT ![t] = IF r.ret = "true" THEN "Unlock_203" ELSE "idle"]
           /\ aborted' = (r.ret = "abort")
           /\ last' = [ret |-> r.ret, m |-> vMasterKeyIn, op |-> "Unlock"]
    /\ held' = Leave(held, t)
    /\ UNCHANGED <<history, crypter>>

\* Lock, line 165 and Unlock, line 203: NotifyStatusChanged(this), with the
\* number of acquisitions the firing thread holds at that moment
Fire(t, mode) ==
    /\ ~aborted
    /\ pc[t] \in {"Lock_165", "Unlock_203"}
    /\ mode = "other" => pc[Listener] = "idle"
    /\ pc' = CASE mode = "none" -> [pc EXCEPT ![t] = "idle"]
              [] mode = "same" -> [pc EXCEPT ![t] = "Listener_wait"]
              [] mode = "other" -> [pc EXCEPT ![t] = "Notify_wait",
                                              ![Listener] = "Listener_wait"]
    /\ last' = [held |-> held[t],
                op |-> "NotifyStatusChanged",
                by |-> IF pc[t] = "Lock_165" THEN "Lock" ELSE "Unlock"]
    /\ UNCHANGED storeVars
    /\ UNCHANGED <<held, aborted, history, crypter>>

\* the listener's call into the store (IsLocked) under the mutex; when it
\* returns, the call that fired the notification returns as well
ListenerBody(c) ==
    /\ ~aborted
    /\ pc[c] = "Listener_in"
    /\ pc' = [u \in DOMAIN pc |->
                IF u = c \/ (c = Listener /\ pc[u] = "Notify_wait")
                THEN "idle" ELSE pc[u]]
    /\ last' = [ret |-> Ret(IsLocked(Store)), op |-> "IsLocked"]
    /\ held' = Leave(held, c)
    /\ UNCHANGED storeVars
    /\ UNCHANGED <<aborted, history, crypter>>

\* what c does next once it is inside a call
Continue(c) ==
    \/ SetCryptedBody(c)
    \/ ClearBody(c)
    \/ \E m \in OneMaster : UnlockBody(c, m)
    \/ \E mode \in ListenerModes : Fire(c, mode)
    \/ ListenerBody(c)

\* a call on the CCrypter object leaves the key store alone
CrypterFrame ==
    /\ UNCHANGED storeVars
    /\ UNCHANGED <<pc, held, aborted, history>>

CallSetKeyFromPassphrase(strKeyData, chSalt, nRounds, nDerivationMethod) ==
    /\ LET r == SetKeyFromPassphrase(crypter, strKeyData, chSalt, nRounds,
                                     nDerivationMethod)
       IN  /\ crypter' = r.c
           /\ last' = [ret |-> Ret(r.ret), op |-> "SetKeyFromPassphrase"]
    /\ CrypterFrame

CallSetKey(chNewKey, chNewIV) ==
    /\ LET r == SetKey(crypter, chNewKey, chNewIV)
       IN  /\ crypter' = r.c
           /\ last' = [ret |-> Ret(r.ret), op |-> "SetKey"]
    /\ CrypterFrame

CallEncrypt(vchPlaintext) ==
    /\ LET r == Encrypt(crypter, vchPlaintext)
       IN  last' = [out |-> r.out, ret |-> Ret(r.ret), op |-> "Encrypt",
                    in |-> vchPlaintext]
    /\ UNCHANGED crypter
    /\ CrypterFrame

CallDecrypt(vchCiphertext) ==
    /\ LET r == Decrypt(crypter, vchCiphertext)
       IN  last' = [out |-> r.out, ret |-> Ret(r.ret), op |-> "Decrypt",
                    in |-> vchCiphertext]
    /\ UNCHANGED crypter
    /\ CrypterFrame

\* the operations on the key maps and the lock state, by the threads of T
\* with keys of KS and master keys of MS
KeyNext(T, KS, MS) ==
    \E t \in T :
        \/ CallSetCrypted(t)
        \/ \E key \in KS : CallAddKeyPubKey(t, key)
        \/ \E key \in KS : CallGetKey(t, GetID(GetPubKey(key)))
        \/ \E m \in MS : CallEncryptKeys(t, m)
        \/ LockSetCrypted(t)
        \/ LockClear(t)
        \/ LockNotify(t)
        \/ \E m \in MS : UnlockSection(t, m)
        \/ UnlockNotify(t)

\* records loaded by the persistence layer
LoadNext(T, KS, MS) ==
    \E t \in T : \E key \in KS :
        \E ct \in CryptedSecretsOf(GetPubKey(key), MS) :
            CallAddCryptedKey(t, GetPubKey(key), ct)

\* the paper key envelope
PaperNext(T, PS, MS) ==
    \E t \in T :
        \/ \E ct \in CryptedPaperKeys(PS, MS) : CallAddCryptedPaperKey(t, ct)
        \/ \E p \in PS : CallAddPaperKey(t, p)
        \/ CallGetPaperKey(t)
        \/ CallDecryptPaperKey(t)
        \/ \E m \in MS : CallEncryptPaperKey(t, m)

\* the PIN envelope
PinNext(T, PS, MS) ==
    \E t \in T :
        \/ \E ct \in CryptedPinCodes(PS, MS) : CallAddCryptedPinCode(t, ct)
        \/ \E p \in PS : CallAddPinCode(t, p)
        \/ CallGetPinCode(t)
        \/ CallDecryptPinCode(t)
        \/ \E m \in MS : CallEncryptPinCode(t, m)

\* every operation, by two threads, on one key pair and one paper key / PIN
Next ==
    \/ KeyNext(Threads, OneKey, OneMaster)
    \/ LoadNext(Threads, OneKey, OneMaster)
    \/ PaperNext(Threads, {PaperString}, OneMaster)
    \/ PinNext(Threads, {PinString}, OneMaster)

Spec == Init /\ [][Next]_vars

\* the key operations and the loads of one thread, on NumKeys key pairs and
\* NumMasters master keys (every critical section is one step, and Lock is
\* SetCrypted followed by its second section, so the store states of one
\* thread are those of any number of threads)
NextKeys ==
    \/ KeyNext(OneThread, Keys, KeyingMaterials)
    \/ LoadNext(OneThread, Keys, KeyingMaterials)

SpecKeys == Init /\ [][NextKeys]_vars

\* a store that only its own encrypting operations write to
NextOwn == KeyNext(Threads, Keys, KeyingMaterials)

SpecOwn == Init /\ [][NextOwn]_vars

\* the paper key envelope of one thread's store
NextPaper ==
    \/ KeyNext(OneThread, OneKey, KeyingMaterials)
    \/ PaperNext(OneThread, PaperKeys, KeyingMaterials)

SpecPaper == Init /\ [][NextPaper]_vars

\* the PIN envelope of one thread's store
NextPin ==
    \/ KeyNext(OneThread, OneKey, KeyingMaterials)
    \/ PinNext(OneThread, PinCodes, KeyingMaterials)

SpecPin == Init /\ [][NextPin]_vars

\* the key operations and both envelopes of one thread's store
NextEnvelopes ==
    \/ KeyNext(OneThread, OneKey, OneMaster)
    \/ PaperNext(OneThread, {PaperString}, OneMaster)
    \/ PinNext(OneThread, {PinString}, OneMaster)

SpecEnvelopes == Init /\ [][NextEnvelopes]_vars

\* Lock and Unlock of two threads with every LOCK as a step of its own, the
\* listeners of their notifications, and the calls that fill and encrypt the
\* store
NextMutex ==
    \/ \E t \in Threads : BeginLock(t)
    \/ \E t \in Threads : BeginUnlock(t)
    \/ \E c \in Contexts : AcquireKeyStore(c)
    \/ \E c \in Contexts : Continue(c)
    \/ \E t \in OneThread : \E key \in OneKey : CallAddKeyPubKey(t, key)
    \/ \E t \in OneThread : \E m \in OneMaster : CallEncryptKeys(t, m)

\* preemptive threads: a call that can take its next step takes it, and a
\* thread that waits at a LOCK gets the mutex if it is free again and again
FairMutex ==
    \A c \in Contexts : SF_vars(AcquireKeyStore(c)) /\ WF_vars(Continue(c))

SpecMutex == Init /\ [][NextMutex]_vars /\ FairMutex

\* a CCrypter object of its own: key sets of every kind, encryption of every
\* plaintext, decryption of what it has just encrypted and of other blobs
NextCrypter ==
    \/ \E p \in Passphrases, salt \in Salts, r \in Rounds, m \in Methods :
            CallSetKeyFromPassphrase(p, salt, r, m)
    \/ \E k \in KeyingMaterials, iv \in IVs : CallSetKey(k, iv)
    \/ \E x \in Plaintexts : CallEncrypt(x)
    \/ \E ct \in Ciphertexts : CallDecrypt(ct)
    \/ (last.op = "Encrypt" /\ last.ret = "true" /\ CallDecrypt(last.out))

SpecCrypter == Init /\ [][NextCrypter]_vars

\* ------------------------------------------------------------- claims ----
\* every key id a caller may ask for
AllKeyIDs == {GetID(GetPubKey(k)) : k \in Keys}

\* the record of mapCryptedKeys at id decrypts under master key m to a
\* 32-byte private key whose public key is the record's
RecordDecrypts(s, id, m) ==
    LET pub == s.mapCryptedKeys[id][1]
        d == DecryptSecret(m, s.mapCryptedKeys[id][2], GetHash(pub))
    IN  /\ d.ret
        /\ d.out.size = KEY_SECRET_SIZE
        /\ GetPubKey(KeySet(d.out, IsCompressed(pub))) = pub

\* C1: no step changes fUseCrypto from true to false.
C1_OneWay == [][fUseCrypto => fUseCrypto']_vars

\* C1 witness: the flag is set while one thread is between the two critical
\* sections of Lock and the other has just unlocked the store
C1_Witness ==
    /\ fUseCrypto
    /\ pc[1] = "Lock_160"
    /\ pc[2] = "Unlock_203"

\* C2: invariant I1, fUseCrypto = true implies that mapKeys is empty, in
\* every reachable state, the state left by a failed EncryptKeys included.
C2_I1 == fUseCrypto => DOMAIN mapKeys = {}

\* C3 (original): whenever the master key is resident, every record of
\* mapCryptedKeys has id = pub.GetID() and decrypts under it to the private
\* key of pub, AddCryptedKey calls included.
C3_I4 ==
    vMasterKey.size > 0 =>
        \A id \in DOMAIN mapCryptedKeys :
            /\ id = GetID(mapCryptedKeys[id][1])
            /\ RecordDecrypts(Store, id, vMasterKey)

\* C3 (amended): whenever the master key is resident and no caller of
\* AddCryptedKey has stored a record, every record of mapCryptedKeys has
\* id = pub.GetID() and decrypts under the resident key to the private key of
\* pub; a record has id = pub.GetID() in every state.
C3_I4_Own ==
    /\ \A id \in DOMAIN mapCryptedKeys : id = GetID(mapCryptedKeys[id][1])
    /\ (vMasterKey.size > 0 /\ ~history.loaded) =>
            \A id \in DOMAIN mapCryptedKeys :
                RecordDecrypts(Store, id, vMasterKey)

\* C3 witness: an unlocked store holding two records that it wrote itself
C3_Witness ==
    /\ vMasterKey.size > 0
    /\ ~history.loaded
    /\ Cardinality(DOMAIN mapCryptedKeys) >= 2

Mixed(s, m) ==
    /\ \E id \in DOMAIN s.mapCryptedKeys : RecordDecrypts(s, id, m)
    /\ \E id \in DOMAIN s.mapCryptedKeys : ~RecordDecrypts(s, id, m)

\* C5: Unlock(M) on a store with a record that decrypts under M and a record
\* that does not aborts the process: it returns neither true nor false.
C5_Abort ==
    (last.op = "Unlock" /\ Mixed(Store, last.m)) =>
        (last.ret = "abort" /\ aborted)

\* C6: a Lock call that returns true leaves the store locked; a locked store
\* stays locked until an Unlock call returns true; and while the store is
\* locked GetKey returns false for every key id, stored or not.
C6_LockedGetKey ==
    /\ [](IsLocked(Store) =>
            /\ \A id \in AllKeyIDs : ~GetKey(Store, id).ret
            /\ (last.op = "GetKey" => last.ret = "false"))
    /\ [][(last'.op = "Lock" /\ last'.ret = "true") => IsLocked(Store')]_vars
    /\ [][(IsLocked(Store) /\ ~IsLocked(Store')) =>
            (last'.op = "Unlock" /\ last'.ret = "true")]_vars

\* C6 witness: GetKey of a stored id has just failed on a store that a Lock
\* call locked after it had been unlocked
C6_Witness ==
    /\ IsLocked(Store)
    /\ fDecryptionThoroughlyChecked
    /\ last.op = "GetKey"
    /\ last.address \in DOMAIN mapCryptedKeys
    /\ last.ret = "false"

\* the store was bulk-encrypted by a successful EncryptKeys and is locked
BulkLocked == history.encrypted /\ IsLocked(Store)

\* C7 (original): on a locked store that EncryptKeys(M) bulk-encrypted, over
\* any set of plaintext keys, Unlock(M') returns true, and GetKey then
\* succeeds for the stored ids, if and only if M' = M.
C7_UnlockIff ==
    [][(BulkLocked /\ last'.op = "Unlock") =>
        /\ (last'.ret = "true") <=> (last'.m = history.vMasterKeyIn)
        /\ (last'.ret = "true") =>
                \A id \in DOMAIN mapCryptedKeys' : GetKey(Store', id).ret]_vars

\* C7 (amended): the same, for a store whose EncryptKeys(M) call encrypted a
\* non-empty set of plaintext keys.
C7_UnlockIffNonEmpty ==
    [][(BulkLocked /\ DOMAIN mapCryptedKeys # {} /\ last'.op = "Unlock") =>
        /\ (last'.ret = "true") <=> (last'.m = history.vMasterKeyIn)
        /\ (last'.ret = "true") =>
                \A id \in DOMAIN mapCryptedKeys' : GetKey(Store', id).ret]_vars

\* C7 witness: Unlock(M) has just returned true on a store whose two keys
\* EncryptKeys(M) encrypted
C7_Witness ==
    /\ history.encrypted
    /\ last.op = "Unlock"
    /\ last.ret = "true"
    /\ last.m = history.vMasterKeyIn
    /\ Cardinality(DOMAIN mapCryptedKeys) >= 2

\* C8: AddKeyPubKey(priv, derive(priv)) on an encrypted, unlocked store
\* returns true, and GetKey of the key's id then returns true with priv.
C8_RoundTrip ==
    (last.op = "AddKeyPubKey" /\ IsCrypted(Store) /\ ~IsLocked(Store)) =>
        /\ last.ret = "true"
        /\ GetKey(Store, GetID(GetPubKey(last.key))) =
                [key |-> last.key, ret |-> TRUE]

\* C8 witness: an uncompressed key has just been added to an unlocked store
C8_Witness ==
    /\ last.op = "AddKeyPubKey"
    /\ IsCrypted(Store)
    /\ ~IsLocked(Store)
    /\ ~last.key.fCompressed

\* the (id, private key) pairs that DecryptKey with m recovers from s
DecryptedPairs(s, m) ==
    {<<id, DecryptKey(m, s.mapCryptedKeys[id][2], s.mapCryptedKeys[id][1]).key>> :
        id \in {i \in DOMAIN s.mapCryptedKeys :
                    DecryptKey(m, s.mapCryptedKeys[i][2], s.mapCryptedKeys[i][1]).ret}}

\* C9: a successful EncryptKeys(M) leaves mapKeys empty, every record of
\* mapCryptedKeys decrypts under M, and the (id, private key) pairs so
\* recovered are exactly the pairs mapKeys held before the call.
C9_BulkPreserves ==
    [][(last'.op = "EncryptKeys" /\ last'.ret = "true") =>
        /\ DOMAIN mapKeys' = {}
        /\ DOMAIN mapCryptedKeys' = DOMAIN mapKeys
        /\ DecryptedPairs(Store', last'.m) =
                {<<id, mapKeys[id]>> : id \in DOMAIN mapKeys}]_vars

\* C9 witness: EncryptKeys has just encrypted two plaintext keys
C9_Witness ==
    /\ last.op = "EncryptKeys"
    /\ last.ret = "true"
    /\ Cardinality(DOMAIN mapCryptedKeys) >= 2

\* C10: on an encrypted, locked store GetPaperKey returns false and hands
\* out no plaintext.
C10_LockedGetPaperKey ==
    IsLocked(Store) =>
        /\ ~GetPaperKey(Store).ret
        /\ (last.op = "GetPaperKey" => (last.ret = "false" /\ last.out = Empty))

\* C11: AddPaperKey(p) on an encrypted, unlocked store returns true and the
\* next GetPaperKey returns true with exactly p, whatever the store held
\* before; AddPaperKey(p) on an encrypted, locked store returns false.
C11_ReadBack ==
    /\ (last.op = "AddPaperKey" /\ IsCrypted(Store) /\ ~IsLocked(Store)) =>
            /\ last.ret = "true"
            /\ GetPaperKey(Store) = [out |-> last.p, ret |-> TRUE]
    /\ (last.op = "AddPaperKey" /\ IsLocked(Store)) => last.ret = "false"

\* the store s once it is encrypted and unlocked with m
UnlockedWith(s, m) == [s EXCEPT !.fUseCrypto = TRUE, !.vMasterKey = m]

\* the initial encryption with m is under way: the store is still uncrypted
\* (before EncryptKeys), or EncryptKeys(m) has succeeded and the store has
\* not been unlocked since
InitialEncryption(m) ==
    \/ ~fUseCrypto
    \/ /\ history.encrypted
       /\ history.vMasterKeyIn = m
       /\ ~fDecryptionThoroughlyChecked

C13_NotifyOnce ==
    /\ [][\A t \in Threads :
            /\ (pc[t] \in {"Lock_165", "Unlock_203"} /\ pc'[t] # pc[t]) =>
                    (last'.op = "NotifyStatusChanged" /\ pc'[t] = "idle")
            /\ (pc'[t] = "Lock_165" /\ pc[t] # "Lock_165") =>
                    (last'.op = "Lock" /\ last'.ret = "true" /\ vMasterKey' = Empty)
            /\ (pc'[t] = "Unlock_203" /\ pc[t] # "Unlock_203") =>
                    (last'.op = "Unlock" /\ last'.ret = "true"
                        /\ vMasterKey' = last'.m)]_vars
    /\ [][(last'.op = "Lock" /\ last'.ret = "true") =>
            \E t \in Threads : pc[t] = "Lock_160" /\ pc'[t] = "Lock_165"]_vars
    /\ [][(last'.op = "Unlock" /\ last'.ret = "true") =>
            \E t \in Threads : pc[t] = "idle" /\ pc'[t] = "Unlock_203"]_vars
    /\ [][last'.op = "NotifyStatusChanged" =>
            \E t \in Threads :
                /\ pc[t] = (IF last'.by = "Lock" THEN "Lock_165" ELSE "Unlock_203")
                /\ pc'[t] = "idle"
                /\ \A u \in Threads \ {t} : pc'[u] = pc[u]]_vars
    /\ [][(last'.op \in {"Lock", "Unlock"} /\ last'.ret = "false") => pc' = pc]_vars

\* C13 witness: a Lock call has fired its notification on a store that had
\* been unlocked before
C13_Witness ==
    /\ last.op = "NotifyStatusChanged"
    /\ last.by = "Lock"
    /\ fDecryptionThoroughlyChecked
    /\ IsLocked(Store)

\* C14: AddKeyPubKey, AddPaperKey or AddPinCode on an encrypted, locked
\* store, EncryptKeys on a store that is already encrypted, and Lock on an
\* uncrypted store that holds plaintext keys each return false and leave
\* every store variable as it was before the call.
C14_StateErrors ==
    [][(\/ /\ last'.op \in {"AddKeyPubKey", "AddPaperKey", "AddPinCode"}
           /\ IsLocked(Store)
        \/ /\ last'.op = "EncryptKeys"
           /\ IsCrypted(Store)
        \/ /\ last'.op = "Lock"
           /\ ~fUseCrypto
           /\ DOMAIN mapKeys # {}) =>
        (last'.ret = "false" /\ UNCHANGED storeVars)]_vars

\* C14 witness: a second EncryptKeys call has just been refused on a store
\* whose keys the first call encrypted
C14_Witness ==
    /\ last.op = "EncryptKeys"
    /\ last.ret = "false"
    /\ history.encrypted
    /\ DOMAIN mapCryptedKeys # {}

\* C15: a crypter set with SetKey(K, V), K of 32 bytes and V of 16, encrypts
\* every plaintext X of the input set, the empty one included, to a
\* ciphertext C with Encrypt returning true, and Decrypt(C) returns true with
\* plaintext X.
C15_RoundTrip ==
    (last.op = "SetKey" /\ last.ret = "true") =>
        \A X \in Plaintexts :
            LET e == Encrypt(crypter, X)
            IN  /\ e.ret
                /\ Decrypt(crypter, e.out) = [out |-> X, ret |-> TRUE]

\* C16: after a SetKeyFromPassphrase or SetKey call that returns false,
\* whatever key the crypter held before, its key and IV buffers are all zero
\* and Encrypt and Decrypt return false.
C16_BlankAfterFailure ==
    (last.op \in {"SetKeyFromPassphrase", "SetKey"} /\ last.ret = "false") =>
        /\ crypter.vchKey = Zeros(WALLET_CRYPTO_KEY_SIZE)
        /\ crypter.vchIV = Zeros(WALLET_CRYPTO_IV_SIZE)
        /\ \A X \in Plaintexts : ~Encrypt(crypter, X).ret
        /\ \A ct \in Ciphertexts : ~Decrypt(crypter, ct).ret

\* C17: invariants I2 and I3: in every reachable state in which fUseCrypto is
\* false, mapCryptedKeys is empty and vMasterKey is empty, whatever
\* AddCryptedKey, Unlock, Lock and EncryptKeys calls were made.
C17_I2_I3 ==
    ~fUseCrypto => (DOMAIN mapCryptedKeys = {} /\ vMasterKey = Empty)

\* C17 witness: AddCryptedKey has just been refused on an uncrypted store
\* that holds plaintext keys
C17_Witness ==
    /\ ~fUseCrypto
    /\ DOMAIN mapKeys # {}
    /\ last.op = "AddCryptedKey"
    /\ last.ret = "false"

\* C20: an Unlock call that returns false leaves vMasterKey and
\* fDecryptionThoroughlyChecked as they were: an unlocked store stays
\* unlocked with the same key and a locked store stays locked.
C20_FailedUnlock ==
    [][(last'.op = "Unlock" /\ last'.ret = "false") =>
        /\ vMasterKey' = vMasterKey
        /\ fDecryptionThoroughlyChecked' = fDecryptionThoroughlyChecked
        /\ (IsLocked(Store) => IsLocked(Store'))]_vars

\* C20 witness: Unlock with another key has just failed on a store that is
\* unlocked
C20_Witness ==
    /\ last.op = "Unlock"
    /\ last.ret = "false"
    /\ vMasterKey.size > 0
    /\ last.m # vMasterKey
    /\ DOMAIN mapCryptedKeys # {}

\* C18: Lock() is one critical section: the calling thread holds cs_KeyStore
\* from the promotion check of SetCrypted through the clearing of vMasterKey,
\* and no other thread acquires the mutex or runs a store operation between
\* these two steps.
C18_OneSection ==
    /\ [](\A t \in Threads :
            pc[t] \in {"SetCrypted_147", "Lock_161", "Lock_162"} => held[t] > 0)
    /\ [][\A t \in Threads :
            (pc[t] \in {"Lock_161", "Lock_162"} /\ pc'[t] = pc[t]) =>
                /\ \A u \in Contexts \ {t} : held'[u] = 0
                /\ UNCHANGED storeVars]_vars

====
